---- MODULE Spec2Model ----
(***************************************************************************)
(* Model of the chunked income-analysis route                              *)
(* (src/app/api/analyze-chunked/route.js): the POST handler that splits a  *)
(* PDF into 12-page chunks and submits them one after the other, and       *)
(* mergeResults, which folds the chunks' partial results into one report.  *)
(*                                                                         *)
(* Strings that the code inspects character by character (transaction      *)
(* types and descriptions) are sequences of one-character strings.         *)
(* Amounts are integers in thousandths of a currency unit, so that         *)
(* toFixed(2) is a real rounding.  JSON objects are records; a field the   *)
(* JSON lacks is a field the record lacks.                                 *)
(***************************************************************************)
EXTENDS Integers, Sequences, FiniteSets, TLC

VARIABLES
    results,        \* the array of partial results (POST's local, mergeResults' argument)
    mpc,            \* position inside mergeResults
    ri,             \* index of the partial being folded (results.forEach)
    mi,             \* index of the month being folded (result.months.forEach)
    monthMap,       \* the Map month label -> bucket, as its values in insertion order
    merged,         \* the object under construction, then the value returned
    again,          \* the value of a second call mergeResults([merged])
    refs,           \* object identity: what the result and its buckets are, what was written to
    doc,            \* the file of the request: its kind and its pages
    pc,             \* position inside POST
    totalPages,     \* pdfDoc.getPageCount()
    chunks,         \* the chunk documents, each as the page indices copied into it
    ci,             \* the loop variable i of the split loop, then of the chunk loop
    inFlight,       \* the documents sent to the extraction service and not yet answered
    submitted,      \* every document sent to the extraction service, in order
    delays,         \* the waits that have elapsed: how long, and after how many submissions
    attempts,       \* the calls POST has awaited to their end: which chunk, what came of it
    mergeCalls,     \* the calls of mergeResults POST has made: with what, after how many attempts
    response,       \* what POST returns
    text,           \* a string handed to normalizeCategory or normalizeDescription
    npc,            \* which of the two was applied to it
    once,           \* what it returned
    twice           \* what normalizeDescription returns for what it returned

mergeVars == <<mpc, ri, mi, monthMap, merged, again, refs>>
postVars == <<doc, pc, totalPages, chunks, ci, inFlight, submitted, delays, attempts, mergeCalls, response>>
normVars == <<text, npc, once, twice>>
vars == <<results, mergeVars, postVars, normVars>>

-----------------------------------------------------------------------------
(* JavaScript values *)

\* null
Null == [isNull |-> TRUE]

\* obj.field is present (not undefined)
Has(obj, field) == field \in DOMAIN obj

-----------------------------------------------------------------------------
(* String primitives *)

UpperCase == <<"A","B","C","D","E","F","G","H","I","J","K","L","M","N","O","P","Q","R","S","T","U","V","W","X","Y","Z">>
LowerCase == <<"a","b","c","d","e","f","g","h","i","j","k","l","m","n","o","p","q","r","s","t","u","v","w","x","y","z">>
Digits == <<"0","1","2","3","4","5","6","7","8","9">>

Range(s) == {s[i] : i \in DOMAIN s}

\* the regular expression class \s
SpaceChars == {" ", "\t", "\n"}

IsSpace(c) == c \in SpaceChars

\* the regular expression class \w
WordChars == Range(UpperCase) \cup Range(LowerCase) \cup Range(Digits) \cup {"_"}

IsWord(c) == c \in WordChars

\* upper-case letter -> lower-case letter
LowerOf == [c \in Range(UpperCase) |->
               LowerCase[CHOOSE i \in DOMAIN UpperCase : UpperCase[i] = c]]

toLowerCaseChar(c) == IF c \in DOMAIN LowerOf THEN LowerOf[c] ELSE c

\* String.prototype.toLowerCase
toLowerCase(s) == [i \in 1..Len(s) |-> toLowerCaseChar(s[i])]

\* .replace(/\s+/g, ' '): every maximal run of whitespace becomes one space
RECURSIVE collapseWhitespace(_)
collapseWhitespace(s) ==
    IF s = <<>> THEN <<>>
    ELSE IF IsSpace(Head(s))
         THEN IF Len(s) > 1 /\ IsSpace(s[2])
              THEN collapseWhitespace(Tail(s))
              ELSE <<" ">> \o collapseWhitespace(Tail(s))
         ELSE <<Head(s)>> \o collapseWhitespace(Tail(s))

RECURSIVE trimStart(_)
trimStart(s) ==
    IF s # <<>> /\ IsSpace(Head(s)) THEN trimStart(Tail(s)) ELSE s

RECURSIVE trimEnd(_)
trimEnd(s) ==
    IF s # <<>> /\ IsSpace(s[Len(s)]) THEN trimEnd(SubSeq(s, 1, Len(s) - 1)) ELSE s

\* String.prototype.trim
trim(s) == trimEnd(trimStart(s))

\* .replace(/[^\w\s]/g, ''): drop what is neither a word character nor whitespace
stripSpecial(s) == SelectSeq(s, LAMBDA c : IsWord(c) \/ IsSpace(c))

\* String.prototype.includes
includes(s, pat) ==
    \E i \in 0..(Len(s) - Len(pat)) : SubSeq(s, i + 1, i + Len(pat)) = pat

-----------------------------------------------------------------------------
(* The canonical category labels and the substrings normalizeCategory looks for *)

TransferIn == <<"T","r","a","n","s","f","e","r"," ","I","n">>
ZelleTransfer == <<"Z","e","l","l","e"," ","T","r","a","n","s","f","e","r">>
ACHDeposit == <<"A","C","H"," ","D","e","p","o","s","i","t">>
WireTransfer == <<"W","i","r","e"," ","T","r","a","n","s","f","e","r">>
Venmo == <<"V","e","n","m","o">>
CashApp == <<"C","a","s","h"," ","A","p","p">>
PayPal == <<"P","a","y","P","a","l">>
BankDeposit == <<"B","a","n","k"," ","D","e","p","o","s","i","t">>
CheckDeposit == <<"C","h","e","c","k"," ","D","e","p","o","s","i","t">>
MobileDeposit == <<"M","o","b","i","l","e"," ","D","e","p","o","s","i","t">>
DirectDeposit == <<"D","i","r","e","c","t"," ","D","e","p","o","s","i","t">>

pat_transfer_in == <<"t","r","a","n","s","f","e","r"," ","i","n">>
pat_zelle == <<"z","e","l","l","e">>
pat_ach == <<"a","c","h">>
pat_wire == <<"w","i","r","e">>
pat_venmo == <<"v","e","n","m","o">>
pat_cash_app == <<"c","a","s","h"," ","a","p","p">>
pat_paypal == <<"p","a","y","p","a","l">>
pat_bank_deposit == <<"b","a","n","k"," ","d","e","p","o","s","i","t">>
pat_atm == <<"a","t","m">>
pat_check == <<"c","h","e","c","k">>
pat_mobile == <<"m","o","b","i","l","e">>
pat_direct_deposit == <<"d","i","r","e","c","t"," ","d","e","p","o","s","i","t">>

-----------------------------------------------------------------------------
(* The helpers of mergeResults *)

normalizeDescription(desc) ==
    stripSpecial(trim(collapseWhitespace(toLowerCase(desc))))

\* normalizeCategory gone wrong: an unmatched label comes back lower-cased and trimmed
normalizeCategory_ReturnsNormalized(type) ==
    LET normalized == trim(toLowerCase(type)) IN
    IF includes(normalized, pat_transfer_in) \/ normalized = pat_transfer_in
    THEN TransferIn
    ELSE IF includes(normalized, pat_zelle) THEN ZelleTransfer
    ELSE IF includes(normalized, pat_ach) THEN ACHDeposit
    ELSE IF includes(normalized, pat_wire) THEN WireTransfer
    ELSE IF includes(normalized, pat_venmo) THEN Venmo
    ELSE IF includes(normalized, pat_cash_app) THEN CashApp
    ELSE IF includes(normalized, pat_paypal) THEN PayPal
    ELSE IF includes(normalized, pat_bank_deposit) \/ includes(normalized, pat_atm)
    THEN BankDeposit
    ELSE IF includes(normalized, pat_check) THEN CheckDeposit
    ELSE IF includes(normalized, pat_mobile) THEN MobileDeposit
    ELSE IF includes(normalized, pat_direct_deposit) THEN DirectDeposit
    ELSE normalized

\* const normalizeCategory = (type) => { ... return type; }
normalizeCategory(type) ==
    LET normalized == trim(toLowerCase(type)) IN
    IF includes(normalized, pat_transfer_in) \/ normalized = pat_transfer_in
    THEN TransferIn
    ELSE IF includes(normalized, pat_zelle) THEN ZelleTransfer
    ELSE IF includes(normalized, pat_ach) THEN ACHDeposit
    ELSE IF includes(normalized, pat_wire) THEN WireTransfer
    ELSE IF includes(normalized, pat_venmo) THEN Venmo
    ELSE IF includes(normalized, pat_cash_app) THEN CashApp
    ELSE IF includes(normalized, pat_paypal) THEN PayPal
    ELSE IF includes(normalized, pat_bank_deposit) \/ includes(normalized, pat_atm)
    THEN BankDeposit
    ELSE IF includes(normalized, pat_check) THEN CheckDeposit
    ELSE IF includes(normalized, pat_mobile) THEN MobileDeposit
    ELSE IF includes(normalized, pat_direct_deposit) THEN DirectDeposit
    ELSE type

\* Number(x).toFixed(2): thousandths rounded to hundredths
toFixed2(amount) == (amount + 5) \div 10

\* tx.description || ''
descriptionOf(tx) == IF Has(tx, "description") THEN tx.description ELSE <<>>

\* `${date}|${amount}|${normalizedDesc}`
txKey(tx) == <<tx.date, toFixed2(tx.amount), normalizeDescription(descriptionOf(tx))>>

\* { ...tx, type: normalizeCategory(tx.type), amount: Number(tx.amount) }
normalizedTx(tx) == [tx EXCEPT !.type = normalizeCategory(tx.type)]

\* transactions.reduce((sum, tx) => sum + Number(tx.amount), 0)
RECURSIVE sumAmounts(_)
sumAmounts(txs) ==
    IF txs = <<>> THEN 0 ELSE txs[1].amount + sumAmounts(Tail(txs))

\* the categories object built from a transaction list: type -> {amount, count}
categoriesOf(txs) ==
    [t \in {txs[i].type : i \in DOMAIN txs} |->
        LET ofType == SelectSeq(txs, LAMBDA tx : tx.type = t) IN
        [amount |-> sumAmounts(ofType), count |-> Len(ofType)]]

\* new Set(existing.transactions.map(tx => key of tx))
existingTxSet(txs) == {txKey(txs[i]) : i \in DOMAIN txs}

\* pushNew gone wrong: a report of a stored key overwrites the stored type
RECURSIVE pushNew_LastTypeWins(_, _, _)
pushNew_LastTypeWins(txs, keys, incoming) ==
    IF incoming = <<>> THEN txs
    ELSE LET tx == Head(incoming)
             retyped == [n \in DOMAIN txs |->
                            IF txKey(txs[n]) = txKey(tx)
                            THEN [txs[n] EXCEPT !.type = normalizeCategory(tx.type)]
                            ELSE txs[n]]
         IN IF txKey(tx) \notin keys
            THEN pushNew_LastTypeWins(Append(txs, normalizedTx(tx)),
                                      keys \cup {txKey(tx)}, Tail(incoming))
            ELSE pushNew_LastTypeWins(retyped, keys, Tail(incoming))

\* month.transactions.forEach: push what the key set does not hold, and add its key
RECURSIVE pushNew(_, _, _)
pushNew(txs, keys, incoming) ==
    IF incoming = <<>> THEN txs
    ELSE LET tx == Head(incoming) IN
         IF txKey(tx) \notin keys
         THEN pushNew(Append(txs, normalizedTx(tx)), keys \cup {txKey(tx)}, Tail(incoming))
         ELSE pushNew(txs, keys, Tail(incoming))

\* foldExisting gone wrong: the incoming list replaces the stored one
foldExisting_Overwrites(existing, month) ==
    LET raw == IF Has(month, "transactions") THEN month.transactions ELSE <<>>
        txs == [i \in 1..Len(raw) |-> normalizedTx(raw[i])]
    IN [existing EXCEPT !.transactions = txs,
                        !.total = sumAmounts(txs),
                        !.categories = categoriesOf(txs)]

\* the branch monthMap.has(monthKey): dedup, then recompute total and categories
foldExisting(existing, month) ==
    LET txs == IF Has(month, "transactions")
               THEN pushNew(existing.transactions,
                            existingTxSet(existing.transactions),
                            month.transactions)
               ELSE existing.transactions
    IN [existing EXCEPT !.transactions = txs,
                        !.total = sumAmounts(txs),
                        !.categories = categoriesOf(txs)]

\* foldNew gone wrong: the reported total and categories are kept
foldNew_KeepsReported(month) ==
    LET raw == IF Has(month, "transactions") THEN month.transactions ELSE <<>>
    IN [month |-> month.month,
        total |-> month.total,
        categories |-> month.categories,
        transactions |-> [i \in 1..Len(raw) |-> normalizedTx(raw[i])]]

\* the else branch: the month is stored with normalized types, nothing is deduplicated
foldNew(month) ==
    LET raw == IF Has(month, "transactions") THEN month.transactions ELSE <<>>
        normalizedTransactions == [i \in 1..Len(raw) |-> normalizedTx(raw[i])]
    IN [month |-> month.month,
        total |-> sumAmounts(normalizedTransactions),
        categories |-> categoriesOf(normalizedTransactions),
        transactions |-> normalizedTransactions]

monthMapHas(map, monthKey) == \E k \in DOMAIN map : map[k].month = monthKey

\* one iteration of result.months.forEach
foldMonth(map, month) ==
    IF monthMapHas(map, month.month)
    THEN LET k == CHOOSE k \in DOMAIN map : map[k].month = month.month
         IN [map EXCEPT ![k] = foldExisting(map[k], month)]
    ELSE Append(map, foldNew(month))

\* result.months && Array.isArray(result.months) ? result.months : nothing
monthsOf(result) == IF Has(result, "months") THEN result.months ELSE <<>>

RECURSIVE foldMonths(_, _)
foldMonths(map, months) ==
    IF months = <<>> THEN map
    ELSE foldMonths(foldMonth(map, Head(months)), Tail(months))

RECURSIVE foldResults(_, _)
foldResults(map, rs) ==
    IF rs = <<>> THEN map
    ELSE foldResults(foldMonths(map, monthsOf(Head(rs))), Tail(rs))

\* new Date(label).getTime(), in months since year 0
DateOf(label) ==
    CASE label = "January 2024" -> 2024 * 12 + 0
      [] label = "February 2024" -> 2024 * 12 + 1
      [] label = "March 2024" -> 2024 * 12 + 2

\* Array.prototype.sort((a, b) => new Date(b.month) - new Date(a.month)): stable
RECURSIVE insertByDate(_, _)
insertByDate(sorted, b) ==
    IF sorted = <<>> THEN <<b>>
    ELSE IF DateOf(b.month) - DateOf(Head(sorted).month) > 0
         THEN <<b>> \o sorted
         ELSE <<Head(sorted)>> \o insertByDate(Tail(sorted), b)

RECURSIVE sortMonths(_)
sortMonths(buckets) ==
    IF buckets = <<>> THEN <<>>
    ELSE insertByDate(sortMonths(SubSeq(buckets, 1, Len(buckets) - 1)),
                      buckets[Len(buckets)])

RECURSIVE sumTotals(_)
sumTotals(months) ==
    IF months = <<>> THEN 0 ELSE months[1].total + sumTotals(Tail(months))

RECURSIVE sumLengths(_)
sumLengths(months) ==
    IF months = <<>> THEN 0
    ELSE Len(months[1].transactions) + sumLengths(Tail(months))

\* results[0].accountNumber || 'N/A'
seedAccountNumber(rs) ==
    IF Has(rs[1], "accountNumber") /\ rs[1].accountNumber # ""
    THEN rs[1].accountNumber
    ELSE "N/A"

\* the object literal mergeResults starts from
seedMerged(rs) ==
    [accountNumber |-> seedAccountNumber(rs),
     totalIncome |-> 0,
     totalTransactions |-> 0,
     months |-> <<>>]

\* the sort of the map's values and the two grand totals
finishMerged(m, map) ==
    LET months == sortMonths(map) IN
    [m EXCEPT !.months = months,
              !.totalIncome = m.totalIncome + sumTotals(months),
              !.totalTransactions = m.totalTransactions + sumLengths(months)]

\* mergeResults gone wrong: a single partial is folded like several
mergeResults_AlwaysFolds(rs) ==
    IF Len(rs) = 0 THEN Null
    ELSE finishMerged(seedMerged(rs), foldResults(<<>>, rs))

\* mergeResults as a function of its argument
mergeResults(rs) ==
    IF Len(rs) = 0 THEN Null
    ELSE IF Len(rs) = 1 THEN rs[1]
    ELSE finishMerged(seedMerged(rs), foldResults(<<>>, rs))

\* normalizeCategory(tx.type) with tx.type undefined: type.toLowerCase() throws
\* a TypeError
normalizeCategoryThrows(tx) == ~Has(tx, "type")

\* month.transactions.forEach of the existing branch: only a transaction whose
\* key the set does not hold reaches normalizeCategory
RECURSIVE pushNewThrows(_, _)
pushNewThrows(keys, incoming) ==
    IF incoming = <<>> THEN FALSE
    ELSE LET tx == Head(incoming) IN
         IF txKey(tx) \in keys
         THEN pushNewThrows(keys, Tail(incoming))
         ELSE \/ normalizeCategoryThrows(tx)
              \/ pushNewThrows(keys \cup {txKey(tx)}, Tail(incoming))

\* one iteration of result.months.forEach ends in a throw
foldMonthThrows(map, month) ==
    LET raw == IF Has(month, "transactions") THEN month.transactions ELSE <<>> IN
    IF monthMapHas(map, month.month)
    THEN LET k == CHOOSE k \in DOMAIN map : map[k].month = month.month
         IN pushNewThrows(existingTxSet(map[k].transactions), raw)
    ELSE \E i \in DOMAIN raw : normalizeCategoryThrows(raw[i])

RECURSIVE foldMonthsThrows(_, _)
foldMonthsThrows(map, months) ==
    IF months = <<>> THEN FALSE
    ELSE \/ foldMonthThrows(map, Head(months))
         \/ foldMonthsThrows(foldMonth(map, Head(months)), Tail(months))

RECURSIVE foldResultsThrows(_, _)
foldResultsThrows(map, rs) ==
    IF rs = <<>> THEN FALSE
    ELSE \/ foldMonthsThrows(map, monthsOf(Head(rs)))
         \/ foldResultsThrows(foldMonths(map, monthsOf(Head(rs))), Tail(rs))

\* mergeResults(rs) throws instead of returning: never for 0 or 1 partials,
\* which are returned before any fold
mergeResultsThrows(rs) == Len(rs) >= 2 /\ foldResultsThrows(<<>>, rs)

-----------------------------------------------------------------------------
(* What the extraction service may answer: the partial results *)

MaxPartials == 2

Labels == {"January 2024", "February 2024", "March 2024"}

\* two reports of one deposit, as in Scenario C: same date and amount,
\* descriptions that differ in case and punctuation, types that differ in case
txA == [date |-> "2024-01-15",
        type |-> <<"a","c","h"," ","d","e","p">>,
        source |-> "HYCITE",
        amount |-> 1000000,
        description |-> <<"A","C","H"," ","P","P","D">>]

txB == [date |-> "2024-01-15",
        type |-> ACHDeposit,
        source |-> "HYCITE",
        amount |-> 1000000,
        description |-> <<"a","c","h"," ","p","p","d","!","!">>]

\* the same deposit again, under another category, off by less than a cent
\* and with more whitespace
txZ == [date |-> "2024-01-15",
        type |-> <<"Z","e","l","l","e">>,
        source |-> "HYCITE",
        amount |-> 1000004,
        description |-> <<" ","A","C","H"," "," ","P","P","D">>]

\* another deposit, of a type no rule of normalizeCategory matches
txC == [date |-> "2024-01-20",
        type |-> <<"P","a","y","r","o","l","l">>,
        source |-> "EMPLOYER",
        amount |-> 250000,
        description |-> <<"C","A","S","H">>]

TxListPool == {<<>>, <<txA>>, <<txB>>, <<txZ>>, <<txC>>, <<txA, txB>>, <<txC, txA>>}

\* a month as the service reports it when its own sums are right
Reported(label, txs) ==
    [month |-> label,
     total |-> sumAmounts(txs),
     categories |-> categoriesOf(txs),
     transactions |-> txs]

\* a month whose reported total and categories disagree with its transactions
Misreported(label, txs) ==
    [month |-> label,
     total |-> sumAmounts(txs) + 1000,
     categories |-> [t \in {ACHDeposit} |-> [amount |-> 1000, count |-> 5]],
     transactions |-> txs]

\* a partial whose grand totals are the sums of what its months report
Partial(acct, months) ==
    [accountNumber |-> acct,
     totalIncome |-> sumTotals(months),
     totalTransactions |-> sumLengths(months),
     months |-> months]

\* valid JSON without the months field
NoMonths(acct) ==
    [accountNumber |-> acct, totalIncome |-> 0, totalTransactions |-> 0]

MonthListPool ==
    {<<>>}
    \cup {<<Reported(l, txs)>> : l \in Labels, txs \in TxListPool}
    \cup {<<Reported(l1, <<txA>>), Reported(l2, <<txC>>)>> : l1 \in Labels, l2 \in Labels}

\* partials that differ in what they report of months and transactions
ContentPool ==
    {Partial("1514", ms) : ms \in MonthListPool} \cup {NoMonths("1514")}

\* partials that differ in the account number and in the totals they claim
MetaPool ==
    {Partial(a, ms) : a \in {"N/A", "1514", "2222"},
                      ms \in {<<>>, <<Reported("January 2024", <<txA>>)>>}}
    \cup {Partial("1514", <<Misreported("January 2024", <<txA, txC>>)>>),
          [Partial("1514", <<Reported("February 2024", <<txC>>)>>)
              EXCEPT !.totalIncome = @ + 5000, !.totalTransactions = @ + 1]}

SeqsUpTo(S, n) == UNION {[1..k -> S] : k \in 0..n}

Inputs == SeqsUpTo(ContentPool, MaxPartials) \cup SeqsUpTo(MetaPool, MaxPartials)

-----------------------------------------------------------------------------
(* mergeResults, step by step *)

\* an object made by the call (an object literal, the array a map returns, a
\* spread copy), and an object of the argument: a partial
fresh == [kind |-> "fresh"]
inputPartial(i) == [kind |-> "input", partial |-> i]

\* nothing returned or built yet, nothing written to
noRefs == [result |-> [kind |-> "none"], buckets |-> <<>>, written |-> {}]


InitMerge ==
    /\ results \in Inputs
    /\ mpc = "call"
    /\ ri = 0
    /\ mi = 0
    /\ monthMap = <<>>
    /\ merged = Null
    /\ again = Null
    /\ refs = noRefs
    /\ doc = [kind |-> "none", pages |-> 0]
    /\ pc = "idle"
    /\ totalPages = 0
    /\ chunks = <<>>
    /\ ci = 0
    /\ inFlight = {}
    /\ submitted = <<>>
    /\ delays = <<>>
    /\ attempts = <<>>
    /\ mergeCalls = <<>>
    /\ response = Null
    /\ text = <<>>
    /\ npc = "idle"
    /\ once = <<>>
    /\ twice = <<>>

\* if (results.length === 0) return null;
ReturnNull ==
    /\ mpc = "call"
    /\ Len(results) = 0
    /\ merged' = Null
    /\ mpc' = "done"
    /\ UNCHANGED <<results, ri, mi, monthMap, again, refs, postVars, normVars>>

\* if (results.length === 1) return results[0];
ReturnSingle ==
    /\ mpc = "call"
    /\ Len(results) = 1
    /\ merged' = results[1]
    /\ refs' = [refs EXCEPT !.result = inputPartial(1)]
    /\ mpc' = "done"
    /\ UNCHANGED <<results, ri, mi, monthMap, again, postVars, normVars>>

\* const merged = {...}; const monthMap = new Map();
BeginMerge ==
    /\ mpc = "call"
    /\ Len(results) >= 2
    /\ merged' = seedMerged(results)
    /\ refs' = [refs EXCEPT !.result = fresh]
    /\ monthMap' = <<>>
    /\ ri' = 1
    /\ mi' = 1
    /\ mpc' = "fold"
    /\ UNCHANGED <<results, again, postVars, normVars>>

\* one month of one partial, seen for the first time
FoldNewMonth ==
    /\ mpc = "fold"
    /\ ri <= Len(results)
    /\ mi <= Len(monthsOf(results[ri]))
    /\ LET month == monthsOf(results[ri])[mi] IN
       /\ ~monthMapHas(monthMap, month.month)
       /\ monthMap' = Append(monthMap, foldNew(month))
    /\ refs' = [refs EXCEPT !.buckets = Append(@, fresh)]
    /\ mi' = mi + 1
    /\ UNCHANGED <<results, mpc, ri, merged, again, postVars, normVars>>

\* one month of one partial, whose label the map already holds
FoldExistingMonth ==
    /\ mpc = "fold"
    /\ ri <= Len(results)
    /\ mi <= Len(monthsOf(results[ri]))
    /\ LET month == monthsOf(results[ri])[mi] IN
       /\ monthMapHas(monthMap, month.month)
       /\ LET k == CHOOSE k \in DOMAIN monthMap : monthMap[k].month = month.month
          IN /\ monthMap' = [monthMap EXCEPT ![k] = foldExisting(monthMap[k], month)]
             /\ refs' = [refs EXCEPT !.written =
                            @ \cup (IF refs.buckets[k] = fresh THEN {} ELSE {refs.buckets[k]})]
    /\ mi' = mi + 1
    /\ UNCHANGED <<results, mpc, ri, merged, again, postVars, normVars>>

\* the end of one partial's months (at once when it has no months array)
NextResult ==
    /\ mpc = "fold"
    /\ ri <= Len(results)
    /\ mi > Len(monthsOf(results[ri]))
    /\ ri' = ri + 1
    /\ mi' = 1
    /\ UNCHANGED <<results, mpc, monthMap, merged, again, refs, postVars, normVars>>

\* merged.months = sorted values; the totals; return merged
SortAndReturn ==
    /\ mpc = "fold"
    /\ ri > Len(results)
    /\ merged' = finishMerged(merged, monthMap)
    /\ mpc' = "done"
    /\ UNCHANGED <<results, ri, mi, monthMap, again, refs, postVars, normVars>>

\* the returned value is merged once more, as the only partial
MergeAgain ==
    /\ mpc = "done"
    /\ again' = mergeResults(<<merged>>)
    /\ mpc' = "again"
    /\ UNCHANGED <<results, ri, mi, monthMap, merged, refs, postVars, normVars>>

NextMerge ==
    \/ ReturnNull
    \/ ReturnSingle
    \/ BeginMerge
    \/ FoldNewMonth
    \/ FoldExistingMonth
    \/ NextResult
    \/ SortAndReturn
    \/ MergeAgain

SpecMerge == InitMerge /\ [][NextMerge]_vars

Returned == mpc \in {"done", "again"}

\* the step-by-step run returns what the function returns
StepsAgree == Returned => merged = mergeResults(results)

-----------------------------------------------------------------------------
(* POST: load, split, submit chunk after chunk, merge *)

MaxPages == 26

\* const chunkSize = 12;
chunkSize == 12

\* if (totalPages <= 12): the file goes to the service whole
singleChunkMax == 12

\* setTimeout(resolve, 90000)
delayMs == 90000

\* the request's file: nothing, bytes that are no PDF (an image, a damaged
\* PDF), or a PDF of some number of pages (a page tree may be empty)
Documents ==
    {[kind |-> "none", pages |-> 0],
     [kind |-> "image", pages |-> 1],
     [kind |-> "damaged", pages |-> 0]}
    \cup {[kind |-> "pdf", pages |-> n] : n \in 0..MaxPages}

\* loading gone wrong: bytes that are no PDF are taken for a document
loadSucceeds_Always(d) == TRUE

\* PDFDocument.load succeeds on the bytes of a PDF and throws on anything else
loadSucceeds(d) == d.kind = "pdf"

\* the pages of a document, as page indices 0..n-1
pagesOf(n) == [j \in 1..n |-> j - 1]

Min(a, b) == IF a <= b THEN a ELSE b

\* endPage gone wrong: the last chunk is not cut at the end of the document
endPage_Unclamped(k, total) == k + chunkSize

\* const endPage = Math.min(i + chunkSize, totalPages);
endPage(k, total) == Min(k + chunkSize, total)

\* Array.from({ length: endPage - i }, (_, j) => i + j)
pageIndices(k, total) == [j \in 1..(endPage(k, total) - k) |-> k + (j - 1)]

\* what one call of processSingleChunk can come to: a parsed answer (the
\* JSON value null included), or a throw (fetch rejects, the response is not
\* ok, the body or the text in it is not JSON)
\* a transaction without a type, one without a description
txNoType == [date |-> "2024-01-16", source |-> "HYCITE", amount |-> 500000,
             description |-> <<"A", "C", "H">>]

txNoDescription == [date |-> "2024-01-17", type |-> ZelleTransfer,
                    source |-> "HYCITE", amount |-> 750000]

\* a month without a transactions array
MonthNoTransactions(label) == [month |-> label, total |-> 0]

\* a partial with the given months, whatever fields they lack
Malformed(months) ==
    [accountNumber |-> "1514", totalIncome |-> 0, totalTransactions |-> 0,
     months |-> months]

MalformedPool ==
    {NoMonths("1514"),
     Malformed(<<MonthNoTransactions("January 2024")>>),
     Malformed(<<[month |-> "January 2024", total |-> 750000,
                  transactions |-> <<txNoDescription>>]>>),
     Malformed(<<[month |-> "January 2024", total |-> 500000,
                  transactions |-> <<txNoType>>]>>)}

AnswerPool ==
    {Partial("1514", <<Reported("January 2024", <<txA>>)>>)} \cup MalformedPool

Outcomes ==
    {[kind |-> "parsed", data |-> a] : a \in AnswerPool \cup {Null}}
    \cup {[kind |-> k, data |-> Null] : k \in {"transport", "notOk", "notJson"}}

\* data.success && data.data
usable(outcome) == outcome.kind = "parsed" /\ outcome.data # Null

\* the call gone wrong: without await the loop goes on at once
pcAfterSubmit_NoAwait == "settled"

\* after the call: `await processSingleChunk(...)` suspends the loop
pcAfterSubmit == "await"

\* the wait gone wrong: the 90 seconds follow the last chunk too
delayDue_Always(k, n) == TRUE

\* if (i < chunks.length - 1): a wait follows every chunk but the last
delayDue(k, n) == k < n - 1

failure(details) ==
    [status |-> 500, error |-> "Failed to process document", details |-> details]

\* the try gone wrong: a throw of the call leaves the loop for POST's own catch
afterTry_Rethrows(outcome) ==
    IF outcome.kind = "parsed"
    THEN [pc |-> "settled", response |-> Null]
    ELSE [pc |-> "done", response |-> failure(outcome.kind)]

\* the catch gone wrong: a failed call is answered at once, and the loop goes on
afterTry_AnswersAndGoesOn(outcome) ==
    IF outcome.kind = "parsed"
    THEN [pc |-> "settled", response |-> Null]
    ELSE [pc |-> "settled", response |-> failure(outcome.kind)]

\* try { ... } catch (error) { console.error(...) }: whatever came of the call,
\* the iteration goes on and nothing is answered yet
afterTry(outcome) == [pc |-> "settled", response |-> Null]

\* the check gone wrong: an empty results array is merged and answered
noUsableResults_Never(rs) == FALSE

\* if (results.length === 0) throw new Error('No chunks processed successfully')
noUsableResults(rs) == Len(rs) = 0

\* the unsplit path gone wrong: a failed call is answered like a parsed one
wholeResponse_SwallowsFailure(outcome) ==
    [status |-> 200, success |-> TRUE, data |-> outcome.data]

\* return await processSingleChunk(fileData, fileName, false): its response,
\* or its throw caught by POST's catch
wholeResponse(outcome) ==
    IF outcome.kind = "parsed"
    THEN [status |-> 200, success |-> TRUE, data |-> outcome.data]
    ELSE failure(outcome.kind)

\* the count gone wrong: the chunks that gave a usable answer
chunksProcessed_Succeeded(cs, rs) == Len(rs)

\* chunksProcessed: chunks.length
chunksProcessed(cs, rs) == Len(cs)

\* the push gone wrong: the newest partial goes to the front
pushResult_Front(rs, data) == <<data>> \o rs

\* results.push(data.data)
pushResult(rs, data) == Append(rs, data)

InitPost ==
    /\ doc \in Documents
    /\ pc = "request"
    /\ totalPages = 0
    /\ chunks = <<>>
    /\ ci = 0
    /\ results = <<>>
    /\ inFlight = {}
    /\ submitted = <<>>
    /\ delays = <<>>
    /\ attempts = <<>>
    /\ mergeCalls = <<>>
    /\ response = Null
    /\ text = <<>>
    /\ npc = "idle"
    /\ once = <<>>
    /\ twice = <<>>
    /\ mpc = "idle"
    /\ ri = 0
    /\ mi = 0
    /\ monthMap = <<>>
    /\ merged = Null
    /\ again = Null
    /\ refs = noRefs

\* if (!fileData) return 400
NoFileData ==
    /\ pc = "request"
    /\ doc.kind = "none"
    /\ response' = [status |-> 400, error |-> "No file data provided"]
    /\ pc' = "done"
    /\ UNCHANGED <<results, mergeVars, normVars, doc, totalPages, chunks, ci, inFlight, submitted, delays, attempts, mergeCalls>>

\* PDFDocument.load throws: the catch answers 500
LoadFails ==
    /\ pc = "request"
    /\ doc.kind # "none"
    /\ ~loadSucceeds(doc)
    /\ response' = failure("load")
    /\ pc' = "done"
    /\ UNCHANGED <<results, mergeVars, normVars, doc, totalPages, chunks, ci, inFlight, submitted, delays, attempts, mergeCalls>>

\* const pdfDoc = await PDFDocument.load(...); const totalPages = pdfDoc.getPageCount();
Load ==
    /\ pc = "request"
    /\ doc.kind # "none"
    /\ loadSucceeds(doc)
    /\ totalPages' = doc.pages
    /\ pc' = "loaded"
    /\ UNCHANGED <<results, mergeVars, normVars, doc, chunks, ci, inFlight, submitted, delays, attempts, mergeCalls, response>>

\* totalPages <= 12: return await processSingleChunk(fileData, fileName, false)
SubmitWhole ==
    /\ pc = "loaded"
    /\ totalPages <= singleChunkMax
    /\ inFlight' = inFlight \cup {pagesOf(totalPages)}
    /\ submitted' = Append(submitted, pagesOf(totalPages))
    /\ pc' = "awaitWhole"
    /\ UNCHANGED <<results, mergeVars, normVars, doc, totalPages, chunks, ci, delays, attempts, mergeCalls, response>>

\* the single call returns its response, or throws into POST's catch
WholeSettles ==
    /\ pc = "awaitWhole"
    /\ \E outcome \in Outcomes :
          /\ response' = wholeResponse(outcome)
          /\ attempts' = Append(attempts, [chunk |-> 1, outcome |-> outcome])
    /\ inFlight' = inFlight \ {pagesOf(totalPages)}
    /\ pc' = "done"
    /\ UNCHANGED <<results, mergeVars, normVars, doc, totalPages, chunks, ci, submitted, delays, mergeCalls>>

\* totalPages > 12: const chunks = []; the split loop starts at i = 0
BeginSplit ==
    /\ pc = "loaded"
    /\ totalPages > singleChunkMax
    /\ chunks' = <<>>
    /\ ci' = 0
    /\ pc' = "split"
    /\ UNCHANGED <<results, mergeVars, normVars, doc, totalPages, inFlight, submitted, delays, attempts, mergeCalls, response>>

\* one iteration of for (let i = 0; i < totalPages; i += chunkSize)
SplitChunk ==
    /\ pc = "split"
    /\ ci < totalPages
    /\ chunks' = Append(chunks, pageIndices(ci, totalPages))
    /\ ci' = ci + chunkSize
    /\ UNCHANGED <<results, mergeVars, normVars, doc, pc, totalPages, inFlight, submitted, delays, attempts, mergeCalls, response>>

\* the split loop ends; const results = []; the chunk loop starts at i = 0
BeginChunks ==
    /\ pc = "split"
    /\ ci >= totalPages
    /\ results' = <<>>
    /\ ci' = 0
    /\ pc' = "loop"
    /\ UNCHANGED <<mergeVars, normVars, doc, totalPages, chunks, inFlight, submitted, delays, attempts, mergeCalls, response>>

\* processSingleChunk(chunks[i], ...) is called: the fetch goes out
SubmitChunk ==
    /\ pc = "loop"
    /\ ci < Len(chunks)
    /\ inFlight' = inFlight \cup {chunks[ci + 1]}
    /\ submitted' = Append(submitted, chunks[ci + 1])
    /\ pc' = pcAfterSubmit
    /\ UNCHANGED <<results, mergeVars, normVars, doc, totalPages, chunks, ci, delays, attempts, mergeCalls, response>>

\* a call in flight comes to its end; the loop, when it awaits this call,
\* pushes a usable answer and swallows a throw
ChunkSettles ==
    /\ \E d \in inFlight, outcome \in Outcomes :
          /\ inFlight' = inFlight \ {d}
          /\ IF pc = "await" /\ ci < Len(chunks) /\ d = chunks[ci + 1]
             THEN /\ results' = IF usable(outcome)
                                THEN pushResult(results, outcome.data)
                                ELSE results
                  /\ attempts' = Append(attempts, [chunk |-> ci + 1, outcome |-> outcome])
                  /\ pc' = afterTry(outcome).pc
                  /\ response' = afterTry(outcome).response
             ELSE UNCHANGED <<results, attempts, pc, response>>
    /\ pc # "awaitWhole"
    /\ UNCHANGED <<mergeVars, normVars, doc, totalPages, chunks, ci, submitted, delays, mergeCalls>>

\* if (i < chunks.length - 1) the 90 seconds start; else the iteration ends
AfterChunk ==
    /\ pc = "settled"
    /\ IF delayDue(ci, Len(chunks))
       THEN pc' = "delay" /\ ci' = ci
       ELSE pc' = "loop" /\ ci' = ci + 1
    /\ UNCHANGED <<results, mergeVars, normVars, doc, totalPages, chunks, inFlight, submitted, delays, attempts, mergeCalls, response>>

\* the timer fires, the iteration ends: i++
DelayElapses ==
    /\ pc = "delay"
    /\ delays' = Append(delays, [ms |-> delayMs, after |-> Len(submitted)])
    /\ ci' = ci + 1
    /\ pc' = "loop"
    /\ UNCHANGED <<results, mergeVars, normVars, doc, totalPages, chunks, inFlight, submitted, attempts, mergeCalls, response>>

\* after the loop: throw when nothing was pushed, else merge and answer; a
\* throw inside mergeResults lands in the same catch
Respond ==
    /\ pc = "loop"
    /\ ci >= Len(chunks)
    /\ response' = IF noUsableResults(results)
                   THEN failure("No chunks processed successfully")
                   ELSE IF mergeResultsThrows(results)
                   THEN failure("TypeError")
                   ELSE [status |-> 200,
                         success |-> TRUE,
                         data |-> mergeResults(results),
                         chunksProcessed |-> chunksProcessed(chunks, results)]
    /\ mergeCalls' = IF noUsableResults(results)
                     THEN mergeCalls
                     ELSE Append(mergeCalls, [results |-> results, after |-> Len(attempts)])
    /\ pc' = "done"
    /\ UNCHANGED <<results, mergeVars, normVars, doc, totalPages, chunks, ci, inFlight, submitted, delays, attempts>>

NextPost ==
    \/ NoFileData
    \/ LoadFails
    \/ Load
    \/ SubmitWhole
    \/ WholeSettles
    \/ BeginSplit
    \/ SplitChunk
    \/ BeginChunks
    \/ SubmitChunk
    \/ ChunkSettles
    \/ AfterChunk
    \/ DelayElapses
    \/ Respond

SpecPost == InitPost /\ [][NextPost]_vars

\* every step of POST before the answer that follows the chunk loop
BeforeAnswer ==
    \/ NoFileData
    \/ LoadFails
    \/ Load
    \/ SubmitWhole
    \/ WholeSettles
    \/ BeginSplit
    \/ SplitChunk
    \/ BeginChunks
    \/ SubmitChunk
    \/ ChunkSettles
    \/ AfterChunk
    \/ DelayElapses

\* the chunk loop has ended and POST goes on to its answer: what Respond
\* does to pc
LeaveLoop == pc = "loop" /\ ci >= Len(chunks) /\ pc' = "done"

\* the runtime runs a handler that can go on, every timer fires, and every
\* call of the extraction service comes to an end
SpecPostLive == SpecPost /\ WF_vars(BeforeAnswer) /\ WF_pc(LeaveLoop)

-----------------------------------------------------------------------------
(* normalizeCategory and normalizeDescription, applied to a string *)

MaxDescription == 5

\* a letter in each case, a space, a punctuation mark, the underscore
Alphabet == {"a", "B", " ", "!", "_"}

\* every description over the alphabet, up to the length bound
DescriptionPool == UNION {[1..k -> Alphabet] : k \in 0..MaxDescription}

\* type labels: canonical ones, other spellings, labels that match several
\* rules, labels that match none
TypeLabelPool ==
    {<<"A","C","H"," ","D","e","p","o","s","i","t">>,
     <<"O","t","h","e","r">>,
     <<" ","P","a","y","r","o","l","l"," ">>,
     <<"A","C","H"," ","D","i","r","e","c","t"," ","D","e","p","o","s","i","t">>,
     <<"M","o","b","i","l","e"," ","C","h","e","c","k"," ","D","e","p","o","s","i","t">>,
     <<"Z","e","l","l","e"," ","T","r","a","n","s","f","e","r"," ","I","n">>,
     <<"W","I","R","E"," ","v","i","a"," ","A","T","M">>,
     <<"P","a","y","P","a","l">>,
     <<"c","a","s","h"," ","a","p","p">>,
     <<"V","e","n","m","o">>,
     <<"B","a","n","k"," ","D","e","p","o","s","i","t">>,
     <<"T","r","a","n","s","f","e","r">>,
     <<"T","e","a","c","h","e","r"," ","C","h","e","c","k">>,
     <<"D","i","r","e","c","t"," ","D","e","p">>,
     <<"d","i","r","e","c","t"," ","d","e","p","o","s","i","t">>,
     <<"T","R","A","N","S","F","E","R"," ","I","N">>,
     <<"W","i","r","e"," ","T","r","a","n","s","f","e","r">>,
     <<"m","o","b","i","l","e">>}

InitNormalize ==
    /\ text \in DescriptionPool \cup TypeLabelPool
    /\ npc = "input"
    /\ once = <<>>
    /\ twice = <<>>
    /\ results = <<>>
    /\ mpc = "idle"
    /\ ri = 0
    /\ mi = 0
    /\ monthMap = <<>>
    /\ merged = Null
    /\ again = Null
    /\ refs = noRefs
    /\ doc = [kind |-> "none", pages |-> 0]
    /\ pc = "idle"
    /\ totalPages = 0
    /\ chunks = <<>>
    /\ ci = 0
    /\ inFlight = {}
    /\ submitted = <<>>
    /\ delays = <<>>
    /\ attempts = <<>>
    /\ mergeCalls = <<>>
    /\ response = Null

\* type: normalizeCategory(tx.type)
ApplyNormalizeCategory ==
    /\ npc = "input"
    /\ once' = normalizeCategory(text)
    /\ npc' = "category"
    /\ UNCHANGED <<results, mergeVars, postVars, text, twice>>

\* const normalizedDesc = normalizeDescription(tx.description || '')
ApplyNormalizeDescription ==
    /\ npc = "input"
    /\ once' = normalizeDescription(text)
    /\ npc' = "description"
    /\ UNCHANGED <<results, mergeVars, postVars, text, twice>>

\* the normalized description is normalized once more
ApplyNormalizeDescriptionAgain ==
    /\ npc = "description"
    /\ twice' = normalizeDescription(once)
    /\ npc' = "again"
    /\ UNCHANGED <<results, mergeVars, postVars, text, once>>

NextNormalize ==
    \/ ApplyNormalizeCategory
    \/ ApplyNormalizeDescription
    \/ ApplyNormalizeDescriptionAgain

SpecNormalize == InitNormalize /\ [][NextNormalize]_vars

-----------------------------------------------------------------------------
(* Vocabulary of the claims about mergeResults *)

\* the month buckets of a returned value (none for null or without a months array)
bucketsOf(R) == IF R = Null THEN <<>> ELSE monthsOf(R)

\* total and every category entry agree with the bucket's transaction list
BucketConsistent(b) ==
    /\ b.total = sumAmounts(b.transactions)
    /\ \A t \in DOMAIN b.categories :
          LET ofType == SelectSeq(b.transactions, LAMBDA tx : tx.type = t) IN
          /\ b.categories[t].amount = sumAmounts(ofType)
          /\ b.categories[t].count = Len(ofType)

\* the dedup keys the partials report, under any month label
ReportedKeys(rs) ==
    UNION {UNION {existingTxSet(monthsOf(rs[i])[j].transactions) :
                     j \in DOMAIN monthsOf(rs[i])} :
              i \in DOMAIN rs}

\* where a returned value holds a transaction with the key
Occurrences(R, key) ==
    UNION {{<<i, j>> : j \in {n \in DOMAIN bucketsOf(R)[i].transactions :
                                 txKey(bucketsOf(R)[i].transactions[n]) = key}} :
              i \in DOMAIN bucketsOf(R)}

LabelsOf(R) == {bucketsOf(R)[i].month : i \in DOMAIN bucketsOf(R)}

KeysUnder(R, label) ==
    LET buckets == bucketsOf(R) IN
    UNION {existingTxSet(buckets[i].transactions) :
              i \in {k \in DOMAIN buckets : buckets[k].month = label}}

\* month label -> set of dedup keys
MonthSets(R) ==
    LET buckets == bucketsOf(R) IN
    [l \in {buckets[i].month : i \in DOMAIN buckets} |->
        UNION {existingTxSet(buckets[i].transactions) :
                  i \in {k \in DOMAIN buckets : buckets[k].month = l}}]

SameMonthSets(R1, R2) == MonthSets(R1) = MonthSets(R2)

Orders(n) ==
    {p \in [1..n -> 1..n] : \A i, j \in 1..n : p[i] = p[j] => i = j}

Reorder(rs, p) == [i \in 1..Len(rs) |-> rs[p[i]]]

\* the first account number, in chunk order, that is not the sentinel
RECURSIVE FirstSupplied(_)
FirstSupplied(rs) ==
    IF rs = <<>> THEN "N/A"
    ELSE IF Has(rs[1], "accountNumber") /\ rs[1].accountNumber \notin {"", "N/A"}
         THEN rs[1].accountNumber
         ELSE FirstSupplied(Tail(rs))

Descending(months) ==
    \A i, j \in DOMAIN months :
        i < j => DateOf(months[i].month) >= DateOf(months[j].month)

-----------------------------------------------------------------------------
(* The claims *)

\* C1: every month bucket of the value mergeResults returns has total equal
\* to the sum of its transactions' amounts and, for every category label,
\* amount and count equal to the sum and number of its transactions of that
\* type, for any number of partials, one partial included.
C1_AggregateConsistency ==
    Returned =>
        \A i \in DOMAIN bucketsOf(merged) : BucketConsistent(bucketsOf(merged)[i])

\* C2: the value mergeResults returns has totalIncome equal to the sum of its
\* buckets' totals and totalTransactions equal to the sum of the lengths of
\* their transaction lists, whatever the partials report for themselves.
C2_GrandTotals ==
    (Returned /\ merged # Null) =>
        /\ merged.totalIncome = sumTotals(bucketsOf(merged))
        /\ merged.totalTransactions = sumLengths(bucketsOf(merged))

\* C3: for every dedup key some partial reports, the value mergeResults
\* returns holds exactly one transaction with that key, however many partials
\* report it and however often one partial reports it.
C3_OneTransactionPerKey ==
    Returned =>
        \A key \in ReportedKeys(results) :
            Cardinality(Occurrences(merged, key)) = 1

\* C4: merging is idempotent: mergeResults([R]) = R for the value R that
\* mergeResults returned for any sequence of partials.
C4_MergeIdempotent == mpc = "again" => again = merged

C4_Witness ==
    /\ mpc = "again"
    /\ Len(results) >= 2
    /\ Len(merged.months) >= 2
    /\ merged.totalTransactions >= 2

\* C5: in whatever order the same partials are folded, the returned values
\* have the same month labels and, under each label, the same set of
\* transaction dedup keys.
C5_OrderIndependentSets ==
    mpc = "done" =>
        \A p \in Orders(Len(results)) :
            SameMonthSets(merged, mergeResults(Reorder(results, p)))

C5_Witness ==
    /\ mpc = "done"
    /\ Len(results) >= 2
    /\ \E l \in LabelsOf(results[1]) \cap LabelsOf(results[2]) :
          /\ KeysUnder(results[1], l) \ KeysUnder(results[2], l) # {}
          /\ KeysUnder(results[2], l) \ KeysUnder(results[1], l) # {}
    /\ \E p \in Orders(Len(results)) :
          mergeResults(Reorder(results, p)) # merged

\* C6: the accountNumber of the value mergeResults returns is that of the
\* first partial, in chunk order, that supplies one other than "N/A", and
\* "N/A" when no partial does.
C6_FirstSuppliedAccount ==
    (Returned /\ Len(results) >= 1) =>
        merged.accountNumber = FirstSupplied(results)

\* C7: the months of the value mergeResults returns are in descending
\* chronological order of their labels, for any number of partials.
C7_MonthsDescending == Returned => Descending(bucketsOf(merged))

-----------------------------------------------------------------------------
(* Vocabulary of the claims about POST *)

\* the splitting step is over: the file was parsed and is on its way, whole or in chunks
SplitFinished ==
    /\ loadSucceeds(doc)
    /\ pc \in {"awaitWhole", "loop", "await", "settled", "delay", "done"}

\* the chunks of the run: those of the split loop, or the one whole document
ChunksOfRun == IF totalPages <= singleChunkMax THEN submitted ELSE chunks

RECURSIVE Flatten(_)
Flatten(ss) == IF ss = <<>> THEN <<>> ELSE Head(ss) \o Flatten(Tail(ss))

\* ceil(n / chunkSize)
CeilDiv(n) == (n + chunkSize - 1) \div chunkSize

Contiguous(pages) ==
    \A j \in 1..(Len(pages) - 1) : pages[j + 1] = pages[j] + 1

\* C8 as stated: a parseable document of P pages is split into ceil(P/12)
\* chunks when P > 12 and is one chunk when P <= 12; every chunk is a
\* contiguous page range of 1 to 12 pages, every chunk but the last has
\* exactly 12, and the chunks put together in order are the pages 0..P-1 in
\* original order.
C8_AsStated ==
    SplitFinished =>
        /\ Len(ChunksOfRun) =
              IF totalPages > chunkSize THEN CeilDiv(totalPages) ELSE 1
        /\ \A k \in DOMAIN ChunksOfRun :
              /\ Len(ChunksOfRun[k]) \in 1..chunkSize
              /\ k < Len(ChunksOfRun) => Len(ChunksOfRun[k]) = chunkSize
              /\ Contiguous(ChunksOfRun[k])
        /\ Flatten(ChunksOfRun) = pagesOf(totalPages)

\* C8: the same, except that a chunk has at least one page only when the
\* document has one: a parseable document of no pages is one chunk of no pages.
C8_SplittingComplete ==
    SplitFinished =>
        /\ Len(ChunksOfRun) =
              IF totalPages > chunkSize THEN CeilDiv(totalPages) ELSE 1
        /\ \A k \in DOMAIN ChunksOfRun :
              /\ Len(ChunksOfRun[k]) <= chunkSize
              /\ totalPages >= 1 => Len(ChunksOfRun[k]) >= 1
              /\ k < Len(ChunksOfRun) => Len(ChunksOfRun[k]) = chunkSize
              /\ Contiguous(ChunksOfRun[k])
        /\ Flatten(ChunksOfRun) = pagesOf(totalPages)

\* Scenario B: 25 pages are the ranges [0,12), [12,24), [24,25)
C8_Witness ==
    /\ pc = "loop"
    /\ totalPages = 25
    /\ chunks = <<[j \in 1..12 |-> j - 1], [j \in 1..12 |-> j + 11], <<24>>>>

\* C9: a document whose page count cannot be determined, such as a single
\* image, is one chunk equal to the whole document and is submitted to the
\* extraction service exactly once.
C9_ImageIsOneChunk ==
    (doc.kind = "image" /\ pc = "done") =>
        submitted = <<pagesOf(doc.pages)>>

\* C10: at most one submission to the extraction service is in flight at any
\* time: a submission starts only when every earlier one has returned or
\* failed, so the only call in flight is the one made last.
C10_OneInFlight ==
    /\ Cardinality(inFlight) <= 1
    /\ inFlight # {} => inFlight = {submitted[Len(submitted)]}

\* the second chunk is in flight, the first has been answered
C10_Witness ==
    /\ Len(submitted) >= 2
    /\ inFlight = {submitted[2]}
    /\ submitted[1] # submitted[2]

\* the number of chunks of a run whose document was loaded
NumChunks == IF totalPages <= singleChunkMax THEN 1 ELSE CeilDiv(totalPages)

RunEnded == pc = "done" /\ loadSucceeds(doc)

\* C11: a run of n >= 1 chunks issues exactly n submissions and exactly n-1
\* waits of 90 seconds; the k-th wait comes after exactly k submissions (so one
\* wait lies between every two consecutive submissions, whatever came of the
\* earlier one), and no wait follows the last submission.
C11_SubmissionsAndDelays ==
    /\ \A k \in DOMAIN delays : delays[k] = [ms |-> 90000, after |-> k]
    /\ submitted # <<>> => Len(delays) \in {Len(submitted) - 1, Len(submitted)}
    /\ Len(delays) < NumChunks
    /\ RunEnded => /\ Len(submitted) = NumChunks
                   /\ Len(delays) = NumChunks - 1

\* three chunks, the first of which failed: 3 submissions, 2 waits
C11_Witness ==
    /\ RunEnded
    /\ Len(submitted) = 3
    /\ Len(delays) = 2
    /\ attempts[1].outcome.kind = "transport"
    /\ response.status = 200

\* a run whose document was split
Chunked == loadSucceeds(doc) /\ totalPages > singleChunkMax

\* the answers of the attempts that gave a usable one, in the attempts' order
RECURSIVE UsableData(_)
UsableData(as) ==
    IF as = <<>> THEN <<>>
    ELSE IF usable(Head(as).outcome)
         THEN <<Head(as).outcome.data>> \o UsableData(Tail(as))
         ELSE UsableData(Tail(as))

Failed(attempt) == attempt.outcome.kind \in {"transport", "notOk", "notJson"}

\* C12: in a run of two or more chunks a failed submission (transport error,
\* response not ok, body not JSON) does not end the run: every chunk is
\* submitted and awaited, the partials of all chunks that succeeded are what
\* mergeResults is given, and a result that is answered is their merge.
C12_FailureDoesNotAbort ==
    (Chunked /\ pc = "done") =>
        /\ submitted = chunks
        /\ Len(attempts) = Len(chunks)
        /\ results = UsableData(attempts)
        /\ Has(response, "data") => response.data = mergeResults(results)

\* the second of three chunks failed; the first and the third are merged
C12_Witness ==
    /\ Chunked
    /\ pc = "done"
    /\ Len(chunks) = 3
    /\ ~Failed(attempts[1])
    /\ attempts[2].outcome.kind = "notJson"
    /\ Len(results) = 2
    /\ response.status = 200

\* C13: in a run of two or more chunks of which none gave a usable partial,
\* POST answers the failure 'No chunks processed successfully' and never a
\* success; whatever POST answers in a chunked run, it answers only after
\* every chunk was submitted and awaited.
C13_NoUsableResults ==
    Chunked =>
        /\ response # Null => (submitted = chunks /\ Len(attempts) = Len(chunks))
        /\ (pc = "done" /\ UsableData(attempts) = <<>>) =>
              response = failure("No chunks processed successfully")

\* Scenario D: three chunks, a transport error, a JSON null and a response not ok
C13_Witness ==
    /\ Chunked
    /\ pc = "done"
    /\ Len(attempts) = 3
    /\ attempts[1].outcome.kind = "transport"
    /\ attempts[2].outcome = [kind |-> "parsed", data |-> Null]
    /\ attempts[3].outcome.kind = "notOk"
    /\ response.status = 500

\* a run whose document was loaded and not split
Unsplit == loadSucceeds(doc) /\ totalPages <= singleChunkMax

\* C14: when the document is not split (12 pages or fewer), the failure of the
\* one submission is the failure of the run: POST answers a failure, with no
\* result in it, after that one submission and no wait.
C14_SingleFailureIsFatal ==
    (Unsplit /\ pc = "done" /\ Failed(attempts[1])) =>
        /\ response = failure(attempts[1].outcome.kind)
        /\ response.status = 500
        /\ ~Has(response, "data")
        /\ ~Has(response, "success")
        /\ Len(submitted) = 1
        /\ delays = <<>>

\* twelve pages, the service answers with a status that is not ok
C14_Witness ==
    /\ Unsplit
    /\ pc = "done"
    /\ totalPages = 12
    /\ attempts[1].outcome.kind = "notOk"
    /\ response.status = 500

\* C15: a file handed in as a PDF that cannot be parsed makes POST fail at
\* once: the failure is answered straight from the request, no chunk is
\* created, nothing is submitted to the extraction service, nothing is waited.
C15_MalformedDocumentFailsAtOnce ==
    doc.kind = "damaged" =>
        /\ pc \in {"request", "done"}
        /\ chunks = <<>>
        /\ submitted = <<>>
        /\ inFlight = {}
        /\ attempts = <<>>
        /\ delays = <<>>
        /\ pc = "done" => (response = failure("load") /\ response.status = 500)

C15_Witness ==
    /\ doc.kind = "damaged"
    /\ pc = "done"
    /\ response.status = 500

\* C16: a chunk answered with valid JSON that lacks expected fields (no months,
\* a month without transactions, a transaction without type or description)
\* never makes the run fail: a chunked run in which some chunk gave a usable
\* answer ends in a success.
C16_MalformedNeverFails ==
    (Chunked /\ pc = "done" /\ UsableData(attempts) # <<>>) =>
        /\ response.status = 200
        /\ Has(response, "data")

\* C18: on success of a chunked run the chunksProcessed field of the response
\* is the number of chunks the split produced, all of which were attempted,
\* and not the number of chunks that gave a usable answer.
C18_ChunksProcessedCountsAttempts ==
    (Chunked /\ pc = "done" /\ response.status = 200) =>
        /\ response.chunksProcessed = Len(chunks)
        /\ response.chunksProcessed = NumChunks
        /\ response.chunksProcessed = Len(attempts)

\* three chunks attempted, two usable: chunksProcessed is 3
C18_Witness ==
    /\ Chunked
    /\ pc = "done"
    /\ response.status = 200
    /\ response.chunksProcessed = 3
    /\ Len(results) = 2

\* C19: partials are folded in the order the chunks were split: the chunks
\* are awaited in ascending index, the array given to mergeResults is at every
\* moment the usable answers in that order, and the answered result is the
\* fold of that array from its first element to its last.
C19_FoldOrderIsChunkOrder ==
    Chunked =>
        /\ \A k \in DOMAIN attempts : attempts[k].chunk = k
        /\ results = UsableData(attempts)
        /\ (pc = "done" /\ Has(response, "data") /\ Len(results) >= 2) =>
              response.data = finishMerged(seedMerged(UsableData(attempts)),
                                           foldResults(<<>>, UsableData(attempts)))

\* chunks 1 and 3 gave different partials, chunk 2 failed; folding them the
\* other way round would give another result
C19_Witness ==
    /\ Chunked
    /\ pc = "done"
    /\ response.status = 200
    /\ Len(attempts) = 3
    /\ Failed(attempts[2])
    /\ results = <<attempts[1].outcome.data, attempts[3].outcome.data>>
    /\ response.data # mergeResults(<<results[2], results[1]>>)

-----------------------------------------------------------------------------
(* More claims about mergeResults *)

\* the fixed taxonomy of category labels
Taxonomy ==
    {ACHDeposit, WireTransfer, ZelleTransfer, Venmo, CashApp, PayPal,
     BankDeposit, CheckDeposit, MobileDeposit, DirectDeposit, TransferIn,
     <<"O", "t", "h", "e", "r">>}

\* the transaction types and the category keys of a bucket
TypesIn(b) ==
    {b.transactions[n].type : n \in DOMAIN b.transactions}
    \cup (IF Has(b, "categories") THEN DOMAIN b.categories ELSE {})

\* C17: every transaction type and every category key of a value returned by
\* mergeResults is a label of the fixed taxonomy, whatever labels the partials
\* reported.
C17_TaxonomyClosed ==
    Returned =>
        \A i \in DOMAIN bucketsOf(merged) : TypesIn(bucketsOf(merged)[i]) \subseteq Taxonomy

\* C20: during mergeResults, after every fold step (a month of a partial
\* folded as a new or as an existing month) every bucket of the month map has
\* total = the sum of its transactions' amounts and, per category, amount and
\* count = the sum and the number of its transactions of that type: at every
\* step, not only at the end.
C20_ConsistentAfterEveryStep ==
    \A k \in DOMAIN monthMap :
        /\ BucketConsistent(monthMap[k])
        /\ DOMAIN monthMap[k].categories =
              {monthMap[k].transactions[n].type : n \in DOMAIN monthMap[k].transactions}

\* mid-fold: the second partial's month has just been folded into the bucket
\* the first partial's month made, and brought a transaction with it
C20_Witness ==
    /\ mpc = "fold"
    /\ ri = 2
    /\ mi = 2
    /\ Len(monthsOf(results[1])) = 1
    /\ Len(monthsOf(results[2])) = 2
    /\ Len(monthMap) = 1
    /\ Len(monthMap[1].transactions) > Len(results[1].months[1].transactions)

\* the months folded so far, in fold order: all of them once the fold is over
FoldedMonths ==
    IF mpc = "fold" /\ ri <= Len(results)
    THEN Flatten([i \in 1..(ri - 1) |-> monthsOf(results[i])])
         \o SubSeq(monthsOf(results[ri]), 1, mi - 1)
    ELSE Flatten([i \in 1..Len(results) |-> monthsOf(results[i])])

\* the transactions reported under a label, in fold order
ReportsUnder(months, label) ==
    Flatten([j \in 1..Len(months) |->
                IF months[j].month = label /\ Has(months[j], "transactions")
                THEN months[j].transactions
                ELSE <<>>])

\* the first element of a transaction list that has the key
FirstWithKey(txs, key) ==
    txs[CHOOSE n \in DOMAIN txs :
            /\ txKey(txs[n]) = key
            /\ \A m \in 1..(n - 1) : txKey(txs[m]) # key]

\* the buckets as they stand: the month map during the fold, the result after it
BucketsNow == IF mpc = "fold" THEN monthMap ELSE bucketsOf(merged)

\* C21: when several partials are merged and a dedup key is reported more
\* than once under a month label, with different category types, the
\* transaction the bucket keeps for the key has, after every fold step and in
\* the result, the normalized type of the first report in fold order: a later
\* report never overwrites it.
C21_FirstTypeWins ==
    (mpc \in {"fold", "done"} /\ Len(results) >= 2) =>
        \A k \in DOMAIN BucketsNow :
            LET b == BucketsNow[k] IN
            \A key \in existingTxSet(b.transactions) :
                FirstWithKey(b.transactions, key).type =
                    normalizeCategory(
                        FirstWithKey(ReportsUnder(FoldedMonths, b.month), key).type)

\* the same deposit as 'ach dep' in the first partial and as 'Zelle' in the
\* second: one transaction, an ACH Deposit; the other order would make it a
\* Zelle Transfer
C21_Witness ==
    /\ mpc = "done"
    /\ Len(results) = 2
    /\ results[1] = Partial("1514", <<Reported("January 2024", <<txA>>)>>)
    /\ results[2] = Partial("1514", <<Reported("January 2024", <<txZ>>)>>)
    /\ Len(merged.months[1].transactions) = 1
    /\ merged.months[1].transactions[1].type = ACHDeposit
    /\ mergeResults(<<results[2], results[1]>>).months[1].transactions[1].type
          = ZelleTransfer

\* a month, a partial, with what it reports about itself blanked out
ScrubMonth(m) == [m EXCEPT !.total = 0, !.categories = << >>]

Scrub(r) ==
    IF Has(r, "months")
    THEN [r EXCEPT !.totalIncome = 0,
                   !.totalTransactions = 0,
                   !.months = [j \in DOMAIN @ |-> ScrubMonth(@[j])]]
    ELSE [r EXCEPT !.totalIncome = 0, !.totalTransactions = 0]

\* C22: the merged result depends only on the partials' accountNumber, month
\* labels and transaction lists: the same partials with their self-reported
\* totalIncome, totalTransactions, month total and categories blanked out give
\* an equal result, for any number of partials.
C22_SelfReportsIgnored ==
    (Returned /\ results # <<>>) =>
        merged = mergeResults([i \in DOMAIN results |-> Scrub(results[i])])

-----------------------------------------------------------------------------
(* Claims about normalizeCategory and normalizeDescription *)

\* the rules in the order the specification lists them
DocumentedPrecedence(type) ==
    LET lower == toLowerCase(type) IN
    IF includes(lower, pat_transfer_in) THEN TransferIn
    ELSE IF includes(lower, pat_zelle) THEN ZelleTransfer
    ELSE IF includes(lower, pat_bank_deposit) \/ includes(lower, pat_atm)
    THEN BankDeposit
    ELSE IF includes(lower, pat_check) THEN CheckDeposit
    ELSE IF includes(lower, pat_mobile) THEN MobileDeposit
    ELSE IF includes(lower, pat_direct_deposit) THEN DirectDeposit
    ELSE IF includes(lower, pat_ach) THEN ACHDeposit
    ELSE IF includes(lower, pat_wire) THEN WireTransfer
    ELSE IF includes(lower, pat_venmo) THEN Venmo
    ELSE IF includes(lower, pat_cash_app) THEN CashApp
    ELSE IF includes(lower, pat_paypal) THEN PayPal
    ELSE type

\* C23: normalizeCategory matches case-insensitively by substring and takes
\* the first matching rule in the order transfer in, zelle, bank deposit/atm,
\* check, mobile, direct deposit, ach, wire, venmo, cash app, paypal: a label
\* that matches several rules gets the label of the earliest in that order.
C23_DocumentedPrecedence ==
    npc = "category" => once = DocumentedPrecedence(text)

\* no rule of normalizeCategory matches the label
NoRuleMatches(type) ==
    LET lower == toLowerCase(type) IN
    \A pat \in {pat_transfer_in, pat_zelle, pat_ach, pat_wire, pat_venmo,
                 pat_cash_app, pat_paypal, pat_bank_deposit, pat_atm, pat_check,
                 pat_mobile, pat_direct_deposit} : ~includes(lower, pat)

\* C24: a label that matches no rule of normalizeCategory comes back as it
\* went in, character for character, neither lower-cased nor trimmed; "Other"
\* in particular maps to "Other".
C24_UnmatchedPassesThrough ==
    npc = "category" =>
        /\ NoRuleMatches(text) => once = text
        /\ text = <<"O", "t", "h", "e", "r">> => once = <<"O", "t", "h", "e", "r">>

\* ' Payroll ' keeps its capital and its spaces
C24_Witness ==
    /\ npc = "category"
    /\ text = <<" ","P","a","y","r","o","l","l"," ">>
    /\ NoRuleMatches(text)
    /\ once = text

\* lower-case letters and digits
LowerAlphanumeric == Range(LowerCase) \cup Range(Digits)

\* letters, digits and whitespace of the lower-cased description, then runs of
\* whitespace made one space, then the ends trimmed
CanonicalDescription(desc) ==
    trim(collapseWhitespace(
        SelectSeq(toLowerCase(desc),
                  LAMBDA c : c \in LowerAlphanumeric \/ IsSpace(c))))

\* C25: the result of normalizeDescription is lower-case, has only letters,
\* digits and single spaces, no run of two or more whitespace characters, and
\* is the same for descriptions that differ only in letter case, in the
\* amount of whitespace between words and in punctuation: it is the words of
\* the description, lower-cased, one space apart.
C25_NormalizedDescriptionIsCanonical ==
    npc = "description" =>
        /\ \A n \in DOMAIN once : once[n] \in LowerAlphanumeric \cup {" "}
        /\ \A n \in 1..(Len(once) - 1) : ~(IsSpace(once[n]) /\ IsSpace(once[n + 1]))
        /\ once = CanonicalDescription(text)

\* C27: normalizeDescription is idempotent: normalizing a normalized
\* description changes nothing, also when punctuation stood between two
\* spaces or at the end after a space.
C27_NormalizeDescriptionIdempotent ==
    npc = "again" => twice = once

-----------------------------------------------------------------------------
(* Claims about mergeResults and POST as wholes *)

\* C26: mergeResults leaves its argument as it was (no object of a partial
\* is written to), and the value it returns shares no object with the
\* argument: neither the result nor any bucket of it is an object of a partial.
C26_InputNeitherWrittenNorShared ==
    /\ refs.written = {}
    /\ (Returned /\ merged # Null) =>
          /\ refs.result = fresh
          /\ \A k \in DOMAIN refs.buckets : refs.buckets[k] = fresh

\* the month labels reported by the partials
ReportedLabels(rs) == UNION {LabelsOf(rs[i]) : i \in DOMAIN rs}

\* C28: the merge loses nothing and invents nothing: the month labels of the
\* returned value are exactly the labels some partial reports, each label
\* has exactly one bucket, and the set of dedup keys in the bucket of a label
\* is the union of the key sets the partials report under that label.
C28_LosslessMerge ==
    (Returned /\ merged # Null) =>
        /\ LabelsOf(merged) = ReportedLabels(results)
        /\ \A l \in LabelsOf(merged) :
              /\ Cardinality({k \in DOMAIN bucketsOf(merged) :
                                 bucketsOf(merged)[k].month = l}) = 1
              /\ KeysUnder(merged, l) =
                    UNION {KeysUnder(results[i], l) : i \in DOMAIN results}

\* the totals and the counts of a returned value: of the whole, and per label
Totals(R) ==
    [totalIncome |-> R.totalIncome,
     totalTransactions |-> R.totalTransactions,
     months |-> {<<b.month, b.total, Len(b.transactions)>> :
                    b \in {bucketsOf(R)[k] : k \in DOMAIN bucketsOf(R)}}]

\* C29: in whatever order the same partials are folded, the returned values
\* have the same totalIncome and totalTransactions and, per month, the same
\* total and the same number of transactions, also when a partial reports
\* one dedup key more than once within a month.
C29_OrderIndependentTotals ==
    (mpc = "done" /\ merged # Null) =>
        \A p \in Orders(Len(results)) :
            Totals(mergeResults(Reorder(results, p))) = Totals(merged)

\* no document was sent to the extraction service twice
NoRetry == \A i, j \in DOMAIN submitted : submitted[i] = submitted[j] => i = j

\* C30: when every call of the extraction service comes to an end, every run
\* of POST comes to an answer, and answers once: an answer given is never
\* replaced. No document is submitted twice, and when the chunk loop has
\* ended every chunk was submitted, once, in order. mergeResults is called at
\* most once, and only when all chunks have been attempted.
C30_OneResponseNoRetryOneMerge ==
    /\ <>(pc = "done" /\ response # Null)
    /\ [][response # Null => response' = response]_vars
    /\ [](NoRetry /\ Len(submitted) <= (IF chunks = <<>> THEN 1 ELSE Len(chunks)))
    /\ []((pc = "done" /\ chunks # <<>>) => submitted = chunks)
    /\ [](/\ Len(mergeCalls) <= 1
          /\ \A c \in DOMAIN mergeCalls :
                /\ mergeCalls[c].after = Len(chunks)
                /\ {attempts[a].chunk : a \in 1..mergeCalls[c].after} = DOMAIN chunks)

C30_Witness ==
    /\ pc = "done"
    /\ response.status = 200
    /\ Len(chunks) >= 3
    /\ Len(mergeCalls) = 1
    /\ Len(results) < Len(chunks)
    /\ Len(delays) = Len(chunks) - 1

====
